---- MODULE Spec2Model ----
(***************************************************************************)
(* Round orchestrator of the entropy aggregator                            *)
(* (entropy-aggregator/src/aggregator.rs, state_machine.rs).               *)
(*                                                                         *)
(* The Aggregator is shared (Arc) between the callers of start_new_round,  *)
(* process_commitment and process_reveal and the run_with_timeout driver   *)
(* task.  In Spec every call of a public method is one step (the methods   *)
(* contain no suspension point that yields to the scheduler) and the       *)
(* driver is cut at its await points: the head of its loop and the sleep   *)
(* inside wait_for_commitments / wait_for_reveals on which the enclosing   *)
(* tokio timeout can fire.                                                 *)
(* ThreadSpec refines the calls to one step per lock scope, for calls     *)
(* that run in parallel on the threads of the runtime.                     *)
(*                                                                         *)
(* SHA-256 and ECDSA are modelled symbolically: a hash is the record of    *)
(* the chunks fed to the hasher (all fields have a fixed width, so the     *)
(* chunks and their concatenation determine each other), a signature is    *)
(* the record of the signing key and the signed digest.  The advisory      *)
(* timestamp of the message envelopes is never read by the aggregator and  *)
(* is left out.                                                            *)
(*                                                                         *)
(* Aggregator::new drops the only receiver of the broadcast channel and    *)
(* nothing in the crate subscribes, so the channel never buffers a value:  *)
(* tx.send is recorded as part of the event of the call that makes it.     *)
(*                                                                         *)
(* The beacon ledger (beacon-microchain), the worker node (entropy-worker) *)
(* and the seed construction (aggregation.rs) are components that the      *)
(* aggregator's code never calls.  Each has its own specification          *)
(* (BeaconSpec, WorkerSpec, AggregationSpec) in which the aggregator       *)
(* rests in its initial state; in Spec and FairSpec they rest in theirs.   *)
(***************************************************************************)
EXTENDS Integers, Sequences, FiniteSets, TLC

VARIABLES state, round_id, commitments, reveals, config, driver, last,
          beacon, worker, aggregation, tasks, enclave

vars == <<state, round_id, commitments, reveals, config, driver, last,
          beacon, worker, aggregation, tasks, enclave>>

\* the beacon ledger, the worker node, the seed construction and the SGX
\* enclave: separate components that no step of the aggregator reads or writes
components == <<beacon, worker, aggregation, enclave>>

(***************************************************************************)
(* Bounds of the model                                                     *)
(***************************************************************************)
MaxRound == 1
NumNodes == 2
MaxThreshold == 2
MaxReveals == 3
NumTasks == 2
\* the ecalls that one thread makes
MaxEcalls == 2

(***************************************************************************)
(* Program constants                                                       *)
(***************************************************************************)
SecretLen == 32
SignatureLen == 65
U64Bytes == 8

NodeNames == <<"a", "b", "c", "d">>
Nodes == {NodeNames[i] : i \in 1..NumNodes}
Rounds == 0..MaxRound
Thresholds == 0..MaxThreshold
\* the tasks that call the aggregator: the operator, who starts rounds, and
\* the tasks spawned for the connections of the workers
Operator == 0
Handlers == 1..NumTasks
Tasks == {Operator} \cup Handlers

(***************************************************************************)
(* Byte strings and cryptography                                           *)
(***************************************************************************)
RECURSIVE LeBytes(_, _)
LeBytes(n, k) == IF k = 0 THEN <<>> ELSE <<n % 256>> \o LeBytes(n \div 256, k - 1)

\* u64::to_le_bytes
to_le_bytes(n) == LeBytes(n, U64Bytes)

\* Sha256::new(); update(chunk) for each chunk; finalize()
Sha256(chunks) == [sha256 |-> chunks]

\* a 32-byte secret whose bytes all equal b, e.g. [1u8; 32]
Secret(b) == [len |-> SecretLen, fill |-> b]
\* node i commits to [i; 32]; the first node also to [0; 32]
Secrets == {Secret(b) : b \in 0..NumNodes}

\* the commitment the aggregator recomputes from a revealed secret
commit(secret, rid) == Sha256(<<secret, to_le_bytes(rid)>>)

\* the digest the aggregator verifies a commitment signature against
signing_digest(rid, commitment) == Sha256(<<to_le_bytes(rid), commitment>>)

\* secp256k1 keys: one long-term key pair per node
SecretKey(n) == <<"sk", n>>
PublicKey(sk) == <<"pk", sk[2]>>
\* a byte string that Secp256k1PublicKey::from_slice rejects (e.g. &[])
MalformedPublicKey == <<>>

\* a recoverable ECDSA signature: 64 compact bytes and the recovery id byte
Signature(sk, digest, recid) ==
    [len |-> SignatureLen, signer |-> sk, digest |-> digest, recovery_id |-> recid]

\* secp.verify_ecdsa(message, signature, public_key)
verify_ecdsa(message, signature, public_key) ==
    /\ PublicKey(signature.signer) = public_key
    /\ signature.digest = message

(***************************************************************************)
(* AggregatorState (state_machine.rs)                                      *)
(***************************************************************************)
EmptyMap == [n \in {} |-> n]

MapInsert(map, k, v) == [x \in (DOMAIN map) \cup {k} |-> IF x = k THEN v ELSE map[x]]

Idle == [tag |-> "Idle"]

CollectingCommitments(rid, cs, th) ==
    [tag |-> "CollectingCommitments", round_id |-> rid, commitments |-> cs, threshold |-> th]

CollectingReveals(rid, rs, th) ==
    [tag |-> "CollectingReveals", round_id |-> rid, reveals |-> rs, threshold |-> th]

Aggregating(rid) == [tag |-> "Aggregating", round_id |-> rid]

Publishing(rid) == [tag |-> "Publishing", round_id |-> rid]

(***************************************************************************)
(* Messages offered to the aggregator.  Besides the messages a worker that *)
(* follows the aggregator's formats would send, each message also comes    *)
(* with one field changed.                                                 *)
(***************************************************************************)
CommitmentPayload(rid, commitment, signature) ==
    [round_id |-> rid, commitment |-> commitment, signature |-> signature]

CommitmentMsg(rid, payload, node) ==
    [round_id |-> rid, payload |-> payload, node_id |-> node]

RevealMsg(rid, prid, secret, node) ==
    [round_id |-> rid, payload |-> [round_id |-> prid, secret |-> secret], node_id |-> node]

StartCommitmentMsg(rid, committee) == [round_id |-> rid, committee |-> committee]

\* a call process_commitment(msg, pk)
CommitCall(msg, pk) == [msg |-> msg, pk |-> pk]

NodeIndex(n) == CHOOSE i \in 1..NumNodes : NodeNames[i] = n

WellFormedCommit(n, r, s) ==
    CommitCall(
        CommitmentMsg(r,
            CommitmentPayload(r, commit(s, r),
                Signature(SecretKey(n), signing_digest(r, commit(s, r)), 0)),
            n),
        PublicKey(SecretKey(n)))

CommitVariants(n, r, s) ==
    LET w == WellFormedCommit(n, r, s)
        other == CHOOSE m \in Nodes : (NumNodes > 1) => m # n
    IN  {w}
        \cup {[w EXCEPT !.msg.round_id = r2] : r2 \in Rounds}
        \cup {[w EXCEPT !.msg.payload.signature.signer = SecretKey(other)]}
        \cup {[w EXCEPT !.msg.payload.signature.digest =
                    signing_digest(r2, commit(s, r))] : r2 \in Rounds}
        \cup {[w EXCEPT !.msg.payload.signature.len = 64]}
        \cup {[w EXCEPT !.msg.payload.signature.recovery_id = 4]}
        \cup {[w EXCEPT !.pk = MalformedPublicKey]}

CommitCalls ==
    UNION ({CommitVariants(n, r, Secret(NodeIndex(n))) : n \in Nodes, r \in Rounds}
            \cup {CommitVariants(NodeNames[1], r, Secret(0)) : r \in Rounds})

RevealMsgs ==
    {RevealMsg(r, pr, s, n) : r \in Rounds, pr \in Rounds, s \in Secrets, n \in Nodes}

Committees == {<<NodeNames[1]>>, [i \in 1..NumNodes |-> NodeNames[i]]}

(***************************************************************************)
(* Initial states of the other components                                  *)
(***************************************************************************)
\* Option<T>
None == <<>>
Some(x) == <<x>>

\* the aggregator's long-term key, registered as admin key of the ledger
AdminSecretKey == SecretKey("aggregator")
AdminPublicKey == PublicKey(AdminSecretKey)

\* BeaconState::default() with the given admin_public_key
BeaconState(admin_public_key) ==
    [current_round_id |-> 0, events |-> EmptyMap, admin_public_key |-> admin_public_key]

\* Worker::new(node_id), with the key pair generate_keypair() returned
WorkerNew(node_id, secret_key) ==
    [node_id |-> node_id, secret_key |-> secret_key, current_round_id |-> None,
     current_secret |-> None, current_commitment |-> None]

\* sort_and_concatenate_secrets before it is called on `reveals`
AggregationInput(reveals_map) == [reveals |-> reveals_map, concatenated_secrets |-> <<>>]

\* a thread inside ecall_aggregate: the position, the seed, the hash of the
\* seed, the local `counter` of generate_nonce and the calls made so far
Ecall(pc, seed, random_number, counter, calls) ==
    [pc |-> pc, seed |-> seed, random_number |-> random_number,
     counter |-> counter, calls |-> calls]

\* the enclave after it is loaded: the static NONCE_COUNTER of
\* generate_nonce, the ecalls in progress and the results handed back to
\* the untrusted side, in the order of the returns
EnclaveLoaded ==
    [NONCE_COUNTER |-> 0,
     ecalls |-> [t \in Handlers |-> Ecall("idle", <<>>, <<>>, 0, 0)],
     returned |-> <<>>]

\* the frame of a call of a public method of the aggregator that a task
\* makes: the position in the method, the argument, the round id taken from
\* the cloned state and the value returned
Frame(pc, op, arg, rid, result, reason) ==
    [pc |-> pc, op |-> op, arg |-> arg, round_id |-> rid, result |-> result,
     reason |-> reason]

\* a task that has made no call
NoCall == Frame("idle", "", <<>>, 0, "", "")

(***************************************************************************)
(* Aggregator (aggregator.rs)                                              *)
(***************************************************************************)
\* the timeouts and the port do not enter any decision that is modelled; the
\* committee size is carried although no statement of the aggregator reads it
AggregatorConfig(committee_size, threshold) ==
    [committee_size |-> committee_size, threshold |-> threshold]

InitAggregator ==
    /\ config \in {AggregatorConfig(NumNodes, th) : th \in Thresholds}
    /\ state = Idle
    /\ round_id = 0
    /\ commitments = EmptyMap
    /\ reveals = EmptyMap
    /\ driver = "loop"
    /\ last = [op |-> "new", result |-> "Ok", reason |-> "", received |-> 0, sent |-> <<>>]
    /\ tasks = [t \in Tasks |-> NoCall]

Init ==
    /\ InitAggregator
    /\ beacon = BeaconState(Some(AdminPublicKey))
    /\ worker = WorkerNew(NodeNames[1], SecretKey(NodeNames[1]))
    /\ aggregation = AggregationInput(EmptyMap)
    /\ enclave = EnclaveLoaded

Event(op, result, reason) ==
    [op |-> op, result |-> result, reason |-> reason, received |-> 0, sent |-> <<>>]

\* an early return: nothing but the return value is produced
Return(op, result, reason) ==
    /\ last' = Event(op, result, reason)
    /\ UNCHANGED <<tasks, components, state, round_id, commitments, reveals, config, driver>>

RevealPhase(rid) == <<"REVEAL_PHASE_", rid>>

\* start_new_round without the clearing of the two side maps
StartNewRoundKeepsMaps(rid, committee) ==
    /\ state' = CollectingCommitments(rid, EmptyMap, config.threshold)
    /\ round_id' = rid
    /\ last' = [Event("start_new_round", "Ok", "") EXCEPT
            !.sent = <<StartCommitmentMsg(rid, committee)>>]
    /\ UNCHANGED <<tasks, components, commitments, reveals, config, driver>>

StartNewRound(rid, committee) ==
    /\ state' = CollectingCommitments(rid, EmptyMap, config.threshold)
    /\ round_id' = rid
    /\ commitments' = EmptyMap
    /\ reveals' = EmptyMap
    /\ last' = [Event("start_new_round", "Ok", "") EXCEPT
            !.sent = <<StartCommitmentMsg(rid, committee)>>]
    /\ UNCHANGED <<tasks, components, config, driver>>

\* verification reduced to the structural checks
verify_signature_structural(msg, signature_bytes, public_key_bytes) ==
    IF public_key_bytes = MalformedPublicKey THEN "Err"
    ELSE IF signature_bytes.len # SignatureLen THEN "Err"
    ELSE IF signature_bytes.recovery_id \notin 0..3 THEN "Err"
    ELSE "Ok(true)"

verify_signature(msg, signature_bytes, public_key_bytes) ==
    IF public_key_bytes = MalformedPublicKey THEN "Err"
    ELSE IF signature_bytes.len # SignatureLen THEN "Err"
    ELSE IF signature_bytes.recovery_id \notin 0..3 THEN "Err"
    ELSE IF verify_ecdsa(signing_digest(msg.payload.round_id, msg.payload.commitment),
                         signature_bytes, public_key_bytes)
         THEN "Ok(true)"
         ELSE "Ok(false)"

\* quorum test off by one
has_enough_commitments_strict(st) ==
    /\ st.tag = "CollectingCommitments"
    /\ Cardinality(DOMAIN st.commitments) > st.threshold

has_enough_commitments(st) ==
    /\ st.tag = "CollectingCommitments"
    /\ Cardinality(DOMAIN st.commitments) >= st.threshold

contains_key(map, k) == k \in DOMAIN map

\* "Check if this node has already sent a commitment for this round"
already_sent_commitment_wrong_map(node_id) == contains_key(reveals, node_id)

already_sent_commitment(node_id) == contains_key(commitments, node_id)

\* "Check if this node has already sent a reveal for this round"
already_sent_reveal(node_id) == contains_key(reveals, node_id)

ProcessCommitment(commitment_msg, public_key_bytes) ==
    LET op == "process_commitment"
        verified == verify_signature(commitment_msg, commitment_msg.payload.signature,
                                     public_key_bytes)
        entry == <<commitment_msg.payload, public_key_bytes>>
        stored == [state EXCEPT !.commitments =
                        MapInsert(@, commitment_msg.node_id, entry)]
    IN
    IF state.tag # "CollectingCommitments" THEN Return(op, "Ok(false)", "wrong state")
    ELSE IF commitment_msg.round_id # state.round_id
         THEN Return(op, "Ok(false)", "wrong round")
    ELSE IF verified = "Err" THEN Return(op, "Err", "malformed")
    ELSE IF verified = "Ok(false)" THEN Return(op, "Ok(false)", "invalid signature")
    ELSE IF already_sent_commitment(commitment_msg.node_id)
         THEN Return(op, "Ok(false)", "duplicate")
    ELSE /\ commitments' = MapInsert(commitments, commitment_msg.node_id, entry)
         /\ IF has_enough_commitments(stored)
            THEN \* transition_to_reveal_phase
                 /\ state' = CollectingReveals(state.round_id, EmptyMap, config.threshold)
                 /\ last' = [Event(op, "Ok(true)", "") EXCEPT
                                !.sent = <<RevealPhase(state.round_id)>>]
            ELSE /\ state' = stored
                 /\ last' = Event(op, "Ok(true)", "")
         /\ UNCHANGED <<tasks, components, round_id, reveals, config, driver>>

\* the side map `reveals` is what has_enough_reveals counts; the map inside
\* the CollectingReveals variant is never written
has_enough_reveals_strict(st, rs) ==
    /\ st.tag = "CollectingReveals"
    /\ Cardinality(DOMAIN rs) > st.threshold

has_enough_reveals(st, rs) ==
    /\ st.tag = "CollectingReveals"
    /\ Cardinality(DOMAIN rs) >= st.threshold

verify_reveal_against_commitment(reveal_msg) ==
    IF contains_key(commitments, reveal_msg.node_id)
    THEN commitments[reveal_msg.node_id][1].commitment
            = Sha256(<<reveal_msg.payload.secret, to_le_bytes(reveal_msg.round_id)>>)
    ELSE FALSE

\* the reveal is stored before it is checked against the commitment
ProcessRevealStoreFirst(reveal_msg) ==
    LET op == "process_reveal"
        stored == MapInsert(reveals, reveal_msg.node_id, reveal_msg.payload.secret)
    IN
    IF state.tag # "CollectingReveals" THEN Return(op, "Ok(false)", "wrong state")
    ELSE IF reveal_msg.round_id # state.round_id
         THEN Return(op, "Ok(false)", "wrong round")
    ELSE IF already_sent_reveal(reveal_msg.node_id)
         THEN Return(op, "Ok(false)", "duplicate")
    ELSE IF ~contains_key(commitments, reveal_msg.node_id)
         THEN Return(op, "Ok(false)", "no commitment")
    ELSE IF ~verify_reveal_against_commitment(reveal_msg)
         THEN /\ reveals' = stored
              /\ last' = Event(op, "Ok(false)", "mismatch")
              /\ UNCHANGED <<tasks, components, state, round_id, commitments, config, driver>>
    ELSE /\ reveals' = stored
         /\ IF has_enough_reveals(state, stored)
            THEN state' = Aggregating(state.round_id)
            ELSE state' = state
         /\ last' = Event(op, "Ok(true)", "")
         /\ UNCHANGED <<tasks, components, round_id, commitments, config, driver>>

ProcessReveal(reveal_msg) ==
    LET op == "process_reveal"
        stored == MapInsert(reveals, reveal_msg.node_id, reveal_msg.payload.secret)
    IN
    IF state.tag # "CollectingReveals" THEN Return(op, "Ok(false)", "wrong state")
    ELSE IF reveal_msg.round_id # state.round_id
         THEN Return(op, "Ok(false)", "wrong round")
    ELSE IF already_sent_reveal(reveal_msg.node_id)
         THEN Return(op, "Ok(false)", "duplicate")
    ELSE IF ~contains_key(commitments, reveal_msg.node_id)
         THEN Return(op, "Ok(false)", "no commitment")
    ELSE IF ~verify_reveal_against_commitment(reveal_msg)
         THEN Return(op, "Ok(false)", "mismatch")
    ELSE /\ reveals' = stored
         /\ IF has_enough_reveals(state, stored)
            THEN \* transition_to_aggregation_phase
                 state' = Aggregating(state.round_id)
            ELSE state' = state
         /\ last' = Event(op, "Ok(true)", "")
         /\ UNCHANGED <<tasks, components, round_id, commitments, config, driver>>

(***************************************************************************)
(* run_with_timeout: the driver task.  driver = "loop" is the head of the  *)
(* loop; "wait_for_commitments" / "wait_for_reveals" is the sleep inside   *)
(* the wait loop, where the task is suspended under the phase timeout.     *)
(***************************************************************************)
DriverEvent(op) == last' = Event("run_with_timeout", "", op)

DriverIdle ==
    /\ driver = "loop"
    /\ state.tag = "Idle"
    /\ DriverEvent("idle")
    /\ UNCHANGED <<tasks, components, state, round_id, commitments, reveals, config, driver>>

\* the first poll of timeout(commitment_timeout, wait_for_commitments())
DriverCollectingCommitments ==
    /\ driver = "loop"
    /\ state.tag = "CollectingCommitments"
    /\ driver' = IF has_enough_commitments(state) THEN "loop" ELSE "wait_for_commitments"
    /\ DriverEvent("collecting commitments")
    /\ UNCHANGED <<tasks, components, state, round_id, commitments, reveals, config>>

\* wait_for_commitments wakes from its sleep and runs its loop body
WaitForCommitments ==
    /\ driver = "wait_for_commitments"
    /\ driver' = IF has_enough_commitments(state) \/ state.tag # "CollectingCommitments"
                 THEN "loop" ELSE "wait_for_commitments"
    /\ DriverEvent("wait_for_commitments")
    /\ UNCHANGED <<tasks, components, state, round_id, commitments, reveals, config>>

\* the timeout arm without "Clear any partial commitments"
CommitmentTimeoutKeepsCommitments ==
    /\ driver = "wait_for_commitments"
    /\ state' = Idle
    /\ driver' = "loop"
    /\ last' = [op |-> "run_with_timeout", result |-> "", reason |-> "commitment timeout",
                received |-> Cardinality(DOMAIN commitments), sent |-> <<>>]
    /\ UNCHANGED <<tasks, components, round_id, commitments, reveals, config>>

\* commitment_timeout elapses while wait_for_commitments sleeps
CommitmentTimeout ==
    /\ driver = "wait_for_commitments"
    /\ state' = Idle
    /\ commitments' = EmptyMap
    /\ driver' = "loop"
    /\ last' = [op |-> "run_with_timeout", result |-> "", reason |-> "commitment timeout",
                received |-> Cardinality(DOMAIN commitments), sent |-> <<>>]
    /\ UNCHANGED <<tasks, components, round_id, reveals, config>>

DriverCollectingReveals ==
    /\ driver = "loop"
    /\ state.tag = "CollectingReveals"
    /\ driver' = IF has_enough_reveals(state, reveals) THEN "loop" ELSE "wait_for_reveals"
    /\ DriverEvent("collecting reveals")
    /\ UNCHANGED <<tasks, components, state, round_id, commitments, reveals, config>>

WaitForReveals ==
    /\ driver = "wait_for_reveals"
    /\ driver' = IF has_enough_reveals(state, reveals) \/ state.tag # "CollectingReveals"
                 THEN "loop" ELSE "wait_for_reveals"
    /\ DriverEvent("wait_for_reveals")
    /\ UNCHANGED <<tasks, components, state, round_id, commitments, reveals, config>>

\* reveal_timeout elapses while wait_for_reveals sleeps
RevealTimeout ==
    /\ driver = "wait_for_reveals"
    /\ state' = Idle
    /\ reveals' = EmptyMap
    /\ driver' = "loop"
    /\ last' = [op |-> "run_with_timeout", result |-> "", reason |-> "reveal timeout",
                received |-> Cardinality(DOMAIN reveals), sent |-> <<>>]
    /\ UNCHANGED <<tasks, components, round_id, commitments, config>>

DriverAggregating ==
    /\ driver = "loop"
    /\ state.tag = "Aggregating"
    /\ state' = Publishing(state.round_id)
    /\ DriverEvent("aggregating")
    /\ UNCHANGED <<tasks, components, round_id, commitments, reveals, config, driver>>

DriverPublishing ==
    /\ driver = "loop"
    /\ state.tag = "Publishing"
    /\ state' = Idle
    /\ DriverEvent("publishing")
    /\ UNCHANGED <<tasks, components, round_id, commitments, reveals, config, driver>>

Next ==
    \/ \E rid \in Rounds, committee \in Committees : StartNewRound(rid, committee)
    \/ \E c \in CommitCalls : ProcessCommitment(c.msg, c.pk)
    \/ \E m \in RevealMsgs : ProcessReveal(m)
    \/ DriverIdle
    \/ DriverCollectingCommitments
    \/ WaitForCommitments
    \/ CommitmentTimeout
    \/ DriverCollectingReveals
    \/ WaitForReveals
    \/ RevealTimeout
    \/ DriverAggregating
    \/ DriverPublishing

Spec == Init /\ [][Next]_vars

(***************************************************************************)
(* The round without phase timeouts, with the driver task scheduled        *)
(* fairly: run_with_timeout is spawned on the tokio runtime (main.rs:77),  *)
(* which polls a task whenever it is ready, and every sleep of the driver  *)
(* completes after 100 ms.                                                 *)
(***************************************************************************)
Driver ==
    \/ DriverIdle
    \/ DriverCollectingCommitments
    \/ WaitForCommitments
    \/ DriverCollectingReveals
    \/ WaitForReveals
    \/ DriverAggregating
    \/ DriverPublishing

NextNoTimeout ==
    \/ \E rid \in Rounds, committee \in Committees : StartNewRound(rid, committee)
    \/ \E c \in CommitCalls : ProcessCommitment(c.msg, c.pk)
    \/ \E m \in RevealMsgs : ProcessReveal(m)
    \/ DriverIdle
    \/ DriverCollectingCommitments
    \/ WaitForCommitments
    \/ DriverCollectingReveals
    \/ WaitForReveals
    \/ DriverAggregating
    \/ DriverPublishing

FairSpec == Init /\ [][NextNoTimeout]_vars /\ WF_vars(Driver)

\* The driver with its timers: tokio's timeout completes once the duration
\* has elapsed, so a timeout arm that stays enabled (the driver stays inside
\* the wait) is eventually taken.
TimedSpec ==
    /\ Init /\ [][Next]_vars
    /\ WF_vars(Driver)
    /\ WF_vars(CommitmentTimeout)
    /\ WF_vars(RevealTimeout)

(***************************************************************************)
(* Seed construction (aggregation.rs).  A HashMap iterates in an arbitrary *)
(* order; a BTreeMap<String, _> is kept as the sequence of its entries in  *)
(* ascending key order, String being ordered by its UTF-8 bytes.           *)
(***************************************************************************)
RevealNodeNames == <<"node2", "node10", "node1", "node3", "node20">>
RevealNodes == {RevealNodeNames[i] : i \in 1..MaxReveals}

\* String::as_bytes
as_bytes(node_id) ==
    CASE node_id = "node1" -> <<110, 111, 100, 101, 49>>
      [] node_id = "node10" -> <<110, 111, 100, 101, 49, 48>>
      [] node_id = "node2" -> <<110, 111, 100, 101, 50>>
      [] node_id = "node20" -> <<110, 111, 100, 101, 50, 48>>
      [] node_id = "node3" -> <<110, 111, 100, 101, 51>>

\* <[u8] as Ord>::cmp(x, y) = Less
RECURSIVE BytesLess(_, _)
BytesLess(x, y) ==
    IF x = <<>> THEN y # <<>>
    ELSE IF y = <<>> THEN FALSE
    ELSE IF Head(x) # Head(y) THEN Head(x) < Head(y)
    ELSE BytesLess(Tail(x), Tail(y))

\* <String as Ord>::cmp(a, b) = Less
StringLess(a, b) == BytesLess(as_bytes(a), as_bytes(b))

\* the 32 bytes of a secret
SecretBytes(secret) == [i \in 1..secret.len |-> secret.fill]

RevealPayload(rid, secret) == [round_id |-> rid, secret |-> secret]

\* the HashMap<NodeId, RevealPayload> values handed to the function
RevealMaps ==
    UNION {[ids -> {RevealPayload(0, s) : s \in Secrets}] : ids \in SUBSET RevealNodes}

\* the orders in which `for (node_id, reveal_payload) in reveals` can yield
HashMapIter(map) ==
    LET n == Cardinality(DOMAIN map)
        orders == {f \in [1..n -> DOMAIN map] : \A i, j \in 1..n : i # j => f[i] # f[j]}
    IN  {[i \in 1..n |-> <<f[i], map[f[i]]>>] : f \in orders}

\* BTreeMap::insert
RECURSIVE BTreeInsert(_, _, _)
BTreeInsert(sorted_map, k, v) ==
    IF sorted_map = <<>> THEN <<<<k, v>>>>
    ELSE IF Head(sorted_map)[1] = k THEN <<<<k, v>>>> \o Tail(sorted_map)
    ELSE IF StringLess(k, Head(sorted_map)[1]) THEN <<<<k, v>>>> \o sorted_map
    ELSE <<Head(sorted_map)>> \o BTreeInsert(Tail(sorted_map), k, v)

\* for (node_id, reveal_payload) in reveals { sorted_map.insert(..) }
RECURSIVE InsertAll(_, _)
InsertAll(iter, sorted_map) ==
    IF iter = <<>> THEN sorted_map
    ELSE InsertAll(Tail(iter), BTreeInsert(sorted_map, Head(iter)[1], Head(iter)[2]))

\* for (_, reveal_payload) in sorted_map { extend_from_slice(&secret) }
RECURSIVE ExtendAll(_)
ExtendAll(sorted_map) ==
    IF sorted_map = <<>> THEN <<>>
    ELSE SecretBytes(Head(sorted_map)[2].secret) \o ExtendAll(Tail(sorted_map))

\* the secrets concatenated as the HashMap happens to deliver them
concatenate_in_iteration_order(iter) == ExtendAll(iter)

sort_and_concatenate_secrets(iter) == ExtendAll(InsertAll(iter, <<>>))

InitAggregation ==
    /\ aggregation \in {AggregationInput(m) : m \in RevealMaps}
    /\ enclave = EnclaveLoaded
    /\ InitAggregator
    /\ config = AggregatorConfig(NumNodes, 1)
    /\ beacon = BeaconState(Some(AdminPublicKey))
    /\ worker = WorkerNew(NodeNames[1], SecretKey(NodeNames[1]))

SortAndConcatenateSecrets ==
    /\ \E iter \in HashMapIter(aggregation.reveals) :
          aggregation' = [aggregation EXCEPT
                            !.concatenated_secrets = sort_and_concatenate_secrets(iter)]
    /\ last' = Event("sort_and_concatenate_secrets", "Ok", "")
    /\ UNCHANGED <<tasks, state, round_id, commitments, reveals, config, driver, beacon, worker, enclave>>

NextAggregation == SortAndConcatenateSecrets

AggregationSpec == InitAggregation /\ [][NextAggregation]_vars

(***************************************************************************)
(* Beacon ledger (beacon-microchain/src/lib.rs, state.rs).  The functions  *)
(* of BeaconContract take the fields of BeaconState as arguments; `beacon` *)
(* holds those fields between the calls.                                   *)
(***************************************************************************)
LedgerRounds == 0..(MaxRound + 1)
RandomNumbers == {Secret(0), Secret(1)}

RandomnessEvent(rid, random_number) ==
    [round_id |-> rid, random_number |-> random_number,
     nonce |-> [len |-> 16, fill |-> 2], attestation |-> <<3, 4, 5>>]

RandomnessEvents == {RandomnessEvent(r, n) : r \in LedgerRounds, n \in RandomNumbers}

\* serde_json::to_vec(&event)
to_vec(event) == [json |-> event]

\* RealLineraProvider::sign_randomness_event
sign_randomness_event(private_key, event) ==
    Signature(private_key, Sha256(<<to_vec(event)>>), 0)

HackerSecretKey == SecretKey("hacker")

\* the signature arguments offered with an event: the aggregator's signature,
\* a signature of the same bytes under another key, the aggregator's
\* signature of another event, and three arbitrary bytes (vec![1, 2, 3])
EventSignatures(event) ==
    {sign_randomness_event(AdminSecretKey, event),
     sign_randomness_event(HackerSecretKey, event),
     sign_randomness_event(AdminSecretKey,
         [event EXCEPT !.random_number = Secret(1 - event.random_number.fill)]),
     [sign_randomness_event(HackerSecretKey, event) EXCEPT !.len = 3]}

Callers == {None, Some(AdminPublicKey), Some(PublicKey(HackerSecretKey))}

\* a caller is authorized whenever it is present
is_authorized_caller_any(admin_public_key, caller) ==
    caller # None /\ admin_public_key # None

is_authorized_caller(admin_public_key, caller) ==
    IF caller # None /\ admin_public_key # None
    THEN caller[1] = admin_public_key[1]
    ELSE FALSE

\* BeaconContract::verify_signature: "For now, we'll just return true"
beacon_verify_signature(event, signature, admin_public_key) == TRUE

\* the round id always follows the last stored event
update_current_round_id_always(current_round_id, event) == event.round_id

\* "Update current round ID if this is a newer round"
update_current_round_id(current_round_id, event) ==
    IF event.round_id > current_round_id THEN event.round_id ELSE current_round_id

get_randomness(rid, events) == IF rid \in DOMAIN events THEN Some(events[rid]) ELSE None

BeaconReturn(op, result, reason) ==
    /\ last' = Event(op, result, reason)
    /\ UNCHANGED <<tasks, state, round_id, commitments, reveals, config, driver, components>>

ProcessRandomnessSubmission(event, signature, caller) ==
    LET op == "process_randomness_submission" IN
    IF ~is_authorized_caller(beacon.admin_public_key, caller)
    THEN BeaconReturn(op, "Err", "Unauthorized caller")
    ELSE IF ~beacon_verify_signature(event, signature, beacon.admin_public_key)
         THEN BeaconReturn(op, "Err", "Invalid signature")
    ELSE /\ beacon' = [beacon EXCEPT
                !.events = MapInsert(@, event.round_id, event),
                !.current_round_id = update_current_round_id(@, event)]
         /\ last' = Event(op, "Ok", "")
         /\ UNCHANGED <<tasks, state, round_id, commitments, reveals, config, driver,
                        worker, aggregation, enclave>>

\* BeaconQuery::GetRandomness
GetRandomness(rid) ==
    /\ last' = [Event("get_randomness", "Ok", "") EXCEPT
                    !.sent = <<get_randomness(rid, beacon.events)>>]
    /\ UNCHANGED <<tasks, state, round_id, commitments, reveals, config, driver, components>>

InitBeacon ==
    /\ beacon \in {BeaconState(None), BeaconState(Some(AdminPublicKey))}
    /\ InitAggregator
    /\ config = AggregatorConfig(NumNodes, 1)
    /\ worker = WorkerNew(NodeNames[1], SecretKey(NodeNames[1]))
    /\ aggregation = AggregationInput(EmptyMap)
    /\ enclave = EnclaveLoaded

NextBeacon ==
    \/ \E event \in RandomnessEvents, caller \in Callers :
          \E signature \in EventSignatures(event) :
              ProcessRandomnessSubmission(event, signature, caller)
    \/ \E rid \in LedgerRounds : GetRandomness(rid)

BeaconSpec == InitBeacon /\ [][NextBeacon]_vars

(***************************************************************************)
(* Worker node (entropy-worker/src/worker.rs, crypto.rs)                   *)
(***************************************************************************)
\* crypto.rs: "Compute SHA256 hash of the secret to create commitment"
compute_commitment(secret) == Sha256(<<secret>>)

\* crypto.rs: the message digest is the SHA256 hash of the commitment
sign_commitment(secret_key, commitment) ==
    Signature(secret_key, Sha256(<<commitment>>), 0)

create_commitment_payload(rid, secret, secret_key) ==
    CommitmentPayload(rid, compute_commitment(secret),
                      sign_commitment(secret_key, compute_commitment(secret)))

StartCommitmentMsgs == {StartCommitmentMsg(r, c) : r \in Rounds, c \in Committees}

\* generate_secret(): 32 bytes of the OS RNG, or None when getrandom fails
GeneratedSecrets == {Some(s) : s \in Secrets} \cup {None}

\* Vec::contains
contains(vec, x) == \E i \in DOMAIN vec : vec[i] = x

WorkerReturn(op, result, reason) ==
    /\ last' = Event(op, result, reason)
    /\ UNCHANGED <<tasks, state, round_id, commitments, reveals, config, driver, components>>

\* the round state is stored before the committee is looked at
HandleStartCommitmentStoreFirst(msg, generated) ==
    LET op == "handle_start_commitment" IN
    IF generated = None
    THEN WorkerReturn(op, "Err", "Failed to generate random secret")
    ELSE /\ worker' = [worker EXCEPT
                !.current_round_id = Some(msg.round_id),
                !.current_secret = generated,
                !.current_commitment = Some(compute_commitment(generated[1]))]
         /\ IF ~contains(msg.committee, worker.node_id)
            THEN last' = Event(op, "Err", "not part of the committee")
            ELSE last' = [Event(op, "Ok", "") EXCEPT
                    !.sent = <<create_commitment_payload(msg.round_id, generated[1],
                                                         worker.secret_key)>>]
         /\ UNCHANGED <<tasks, state, round_id, commitments, reveals, config, driver,
                        beacon, aggregation, enclave>>

HandleStartCommitment(msg, generated) ==
    LET op == "handle_start_commitment" IN
    IF ~contains(msg.committee, worker.node_id)
    THEN WorkerReturn(op, "Err", "not part of the committee")
    ELSE IF generated = None
         THEN WorkerReturn(op, "Err", "Failed to generate random secret")
    ELSE /\ worker' = [worker EXCEPT
                !.current_round_id = Some(msg.round_id),
                !.current_secret = generated,
                !.current_commitment = Some(compute_commitment(generated[1]))]
         /\ last' = [Event(op, "Ok", "") EXCEPT
                !.sent = <<create_commitment_payload(msg.round_id, generated[1],
                                                     worker.secret_key)>>]
         /\ UNCHANGED <<tasks, state, round_id, commitments, reveals, config, driver,
                        beacon, aggregation, enclave>>

ResetState ==
    /\ worker' = [worker EXCEPT !.current_round_id = None, !.current_secret = None,
                                !.current_commitment = None]
    /\ last' = Event("reset_state", "", "")
    /\ UNCHANGED <<tasks, state, round_id, commitments, reveals, config, driver,
                   beacon, aggregation, enclave>>

CreateRevealMessageTakesSecret ==
    /\ IF worker.current_round_id # None /\ worker.current_secret # None
       THEN /\ last' = [Event("create_reveal_message", "Ok", "") EXCEPT
                   !.sent = <<RevealMsg(worker.current_round_id[1],
                                        worker.current_round_id[1],
                                        worker.current_secret[1], worker.node_id)>>]
            /\ worker' = [worker EXCEPT !.current_secret = None]
       ELSE /\ last' = Event("create_reveal_message", "Err",
                             "Worker is not participating in a round")
            /\ UNCHANGED worker
    /\ UNCHANGED <<tasks, state, round_id, commitments, reveals, config, driver,
                   beacon, aggregation, enclave>>

CreateRevealMessage ==
    /\ IF worker.current_round_id # None /\ worker.current_secret # None
       THEN last' = [Event("create_reveal_message", "Ok", "") EXCEPT
                !.sent = <<RevealMsg(worker.current_round_id[1], worker.current_round_id[1],
                                     worker.current_secret[1], worker.node_id)>>]
       ELSE last' = Event("create_reveal_message", "Err",
                          "Worker is not participating in a round")
    /\ UNCHANGED <<tasks, state, round_id, commitments, reveals, config, driver, components>>

InitWorker ==
    /\ worker \in {WorkerNew(n, SecretKey(k)) : n \in Nodes, k \in Nodes}
    /\ InitAggregator
    /\ config = AggregatorConfig(NumNodes, 1)
    /\ beacon = BeaconState(Some(AdminPublicKey))
    /\ aggregation = AggregationInput(EmptyMap)
    /\ enclave = EnclaveLoaded

NextWorker ==
    \/ \E msg \in StartCommitmentMsgs, generated \in GeneratedSecrets :
          HandleStartCommitment(msg, generated)
    \/ ResetState
    \/ CreateRevealMessage

WorkerSpec == InitWorker /\ [][NextWorker]_vars

(***************************************************************************)
(* Calls in parallel.  network.rs spawns one tokio task per connection on  *)
(* the multi-threaded runtime, so calls of the public methods overlap on   *)
(* different threads.  The methods take the std::sync::Mutex locks one     *)
(* scope at a time: in ThreadSpec a step of a task is one lock scope       *)
(* together with the local computation that follows it.  A connection     *)
(* task makes one call, the operator starts rounds one after the other; a  *)
(* frame keeps the argument, the round id read from the cloned state and   *)
(* the returned value.  The driver runs as in Spec, but the two lock       *)
(* scopes of a timeout arm are two steps.  The configuration is valid.     *)
(***************************************************************************)
ThreadCommitCalls == {WellFormedCommit(n, r, Secret(NodeIndex(n))) : n \in Nodes, r \in Rounds}

ThreadRevealMsgs == {RevealMsg(r, r, Secret(NodeIndex(n)), n) : n \in Nodes, r \in Rounds}

ThreadCommittee == [i \in 1..NumNodes |-> NodeNames[i]]

At(t, op, pc) == tasks[t].op = op /\ tasks[t].pc = pc

Goto(t, pc) == tasks' = [tasks EXCEPT ![t].pc = pc]

TaskReturn(t, result, reason) ==
    tasks' = [tasks EXCEPT ![t].pc = "done", ![t].result = result, ![t].reason = reason]

\* start_new_round holds the guard of the commitments between its two
\* clear() calls: the scopes of other tasks that lock the commitments wait
CommitmentsFree == ~At(Operator, "start_new_round", "reveals")

\* a task enters a method: nothing is locked yet
Call(t, op, arg) ==
    /\ tasks[t].pc \in (IF t = Operator THEN {"idle", "done"} ELSE {"idle"})
    /\ tasks' = [tasks EXCEPT ![t] = Frame("state", op, arg, 0, "", "")]
    /\ UNCHANGED <<components, state, round_id, commitments, reveals, config, driver, last>>

\* start_new_round: "Update the state"
StartSetState(t) ==
    /\ At(t, "start_new_round", "state")
    /\ state' = CollectingCommitments(tasks[t].arg.round_id, EmptyMap, config.threshold)
    /\ Goto(t, "round_id")
    /\ UNCHANGED <<components, round_id, commitments, reveals, config, driver, last>>

\* start_new_round: "Update the round ID"
StartSetRoundId(t) ==
    /\ At(t, "start_new_round", "round_id")
    /\ round_id' = tasks[t].arg.round_id
    /\ Goto(t, "commitments")
    /\ UNCHANGED <<components, state, commitments, reveals, config, driver, last>>

\* start_new_round: "Clear previous commitments and reveals"; the guard of
\* the commitments is taken and cleared first and is held until the reveals
\* are cleared
StartClearCommitments(t) ==
    /\ At(t, "start_new_round", "commitments")
    /\ commitments' = EmptyMap
    /\ Goto(t, "reveals")
    /\ UNCHANGED <<components, state, round_id, reveals, config, driver, last>>

\* start_new_round: the reveals are cleared, both guards dropped; the return
StartClearReveals(t) ==
    /\ At(t, "start_new_round", "reveals")
    /\ reveals' = EmptyMap
    /\ TaskReturn(t, "Ok", "")
    /\ UNCHANGED <<components, state, round_id, commitments, config, driver, last>>

\* process_commitment: the state is cloned; the round and the signature are
\* checked on the clone and the message
CommitmentReadState(t) ==
    LET c == tasks[t].arg
        verified == verify_signature(c.msg, c.msg.payload.signature, c.pk)
    IN
    /\ At(t, "process_commitment", "state")
    /\ IF state.tag # "CollectingCommitments" THEN TaskReturn(t, "Ok(false)", "wrong state")
       ELSE IF c.msg.round_id # state.round_id
            THEN TaskReturn(t, "Ok(false)", "wrong round")
       ELSE IF verified = "Err" THEN TaskReturn(t, "Err", "malformed")
       ELSE IF verified = "Ok(false)" THEN TaskReturn(t, "Ok(false)", "invalid signature")
       ELSE tasks' = [tasks EXCEPT ![t].pc = "already_sent", ![t].round_id = state.round_id]
    /\ UNCHANGED <<components, state, round_id, commitments, reveals, config, driver, last>>

\* process_commitment: "Check if this node has already sent a commitment"
CommitmentCheckDuplicate(t) ==
    /\ At(t, "process_commitment", "already_sent")
    /\ CommitmentsFree
    /\ IF already_sent_commitment(tasks[t].arg.msg.node_id)
       THEN TaskReturn(t, "Ok(false)", "duplicate")
       ELSE Goto(t, "store")
    /\ UNCHANGED <<components, state, round_id, commitments, reveals, config, driver, last>>

\* process_commitment: "Store the commitment"; both inserts are inside the
\* if let on the state, which matches CollectingCommitments of any round.
\* The frame notes when nothing was stored; the code goes on either way.
CommitmentStore(t) ==
    LET c == tasks[t].arg
        entry == <<c.msg.payload, c.pk>>
    IN
    /\ At(t, "process_commitment", "store")
    /\ CommitmentsFree
    /\ IF state.tag = "CollectingCommitments"
       THEN /\ state' = [state EXCEPT !.commitments = MapInsert(@, c.msg.node_id, entry)]
            /\ commitments' = MapInsert(commitments, c.msg.node_id, entry)
            /\ Goto(t, "has_enough")
       ELSE /\ UNCHANGED <<state, commitments>>
            /\ tasks' = [tasks EXCEPT ![t].pc = "has_enough", ![t].reason = "not stored"]
    /\ UNCHANGED <<components, round_id, reveals, config, driver, last>>

\* process_commitment: has_enough_commitments().await
CommitmentHasEnough(t) ==
    /\ At(t, "process_commitment", "has_enough")
    /\ IF has_enough_commitments(state)
       THEN Goto(t, "transition")
       ELSE TaskReturn(t, "Ok(true)", tasks[t].reason)
    /\ UNCHANGED <<components, state, round_id, commitments, reveals, config, driver, last>>

\* process_commitment: transition_to_reveal_phase(round_id).await, with the
\* round id of the clone
CommitmentTransition(t) ==
    /\ At(t, "process_commitment", "transition")
    /\ state' = CollectingReveals(tasks[t].round_id, EmptyMap, config.threshold)
    /\ TaskReturn(t, "Ok(true)", tasks[t].reason)
    /\ UNCHANGED <<components, round_id, commitments, reveals, config, driver, last>>

\* process_reveal: the state is cloned and the envelope round checked
RevealReadState(t) ==
    /\ At(t, "process_reveal", "state")
    /\ IF state.tag # "CollectingReveals" THEN TaskReturn(t, "Ok(false)", "wrong state")
       ELSE IF tasks[t].arg.round_id # state.round_id
            THEN TaskReturn(t, "Ok(false)", "wrong round")
       ELSE tasks' = [tasks EXCEPT ![t].pc = "already_sent", ![t].round_id = state.round_id]
    /\ UNCHANGED <<components, state, round_id, commitments, reveals, config, driver, last>>

\* process_reveal: "Check if this node has already sent a reveal"
RevealCheckDuplicate(t) ==
    /\ At(t, "process_reveal", "already_sent")
    /\ IF already_sent_reveal(tasks[t].arg.node_id)
       THEN TaskReturn(t, "Ok(false)", "duplicate")
       ELSE Goto(t, "has_commitment")
    /\ UNCHANGED <<components, state, round_id, commitments, reveals, config, driver, last>>

\* process_reveal: "Verify that this node provided a commitment"
RevealCheckCommitment(t) ==
    /\ At(t, "process_reveal", "has_commitment")
    /\ CommitmentsFree
    /\ IF ~contains_key(commitments, tasks[t].arg.node_id)
       THEN TaskReturn(t, "Ok(false)", "no commitment")
       ELSE Goto(t, "verify")
    /\ UNCHANGED <<components, state, round_id, commitments, reveals, config, driver, last>>

\* process_reveal: verify_reveal_against_commitment takes the lock again
RevealVerify(t) ==
    /\ At(t, "process_reveal", "verify")
    /\ CommitmentsFree
    /\ IF ~verify_reveal_against_commitment(tasks[t].arg)
       THEN TaskReturn(t, "Ok(false)", "mismatch")
       ELSE Goto(t, "store")
    /\ UNCHANGED <<components, state, round_id, commitments, reveals, config, driver, last>>

\* process_reveal: "Store the reveal", whatever the state is by now
RevealStore(t) ==
    /\ At(t, "process_reveal", "store")
    /\ reveals' = MapInsert(reveals, tasks[t].arg.node_id, tasks[t].arg.payload.secret)
    /\ Goto(t, "has_enough")
    /\ UNCHANGED <<components, state, round_id, commitments, config, driver, last>>

\* process_reveal: has_enough_reveals().await
RevealHasEnough(t) ==
    /\ At(t, "process_reveal", "has_enough")
    /\ IF has_enough_reveals(state, reveals)
       THEN Goto(t, "transition")
       ELSE TaskReturn(t, "Ok(true)", "")
    /\ UNCHANGED <<components, state, round_id, commitments, reveals, config, driver, last>>

\* process_reveal: transition_to_aggregation_phase(round_id).await
RevealTransition(t) ==
    /\ At(t, "process_reveal", "transition")
    /\ state' = Aggregating(tasks[t].round_id)
    /\ TaskReturn(t, "Ok(true)", "")
    /\ UNCHANGED <<components, round_id, commitments, reveals, config, driver, last>>

\* the commitment timeout arm: the count for the log line, then "Transition
\* to idle on timeout"
CommitmentTimeoutSetIdle ==
    /\ driver = "wait_for_commitments"
    /\ CommitmentsFree
    /\ state' = Idle
    /\ driver' = "clear_commitments"
    /\ last' = [op |-> "run_with_timeout", result |-> "", reason |-> "commitment timeout",
                received |-> Cardinality(DOMAIN commitments), sent |-> <<>>]
    /\ UNCHANGED <<tasks, components, round_id, commitments, reveals, config>>

\* the commitment timeout arm: "Clear any partial commitments"
CommitmentTimeoutClear ==
    /\ driver = "clear_commitments"
    /\ CommitmentsFree
    /\ commitments' = EmptyMap
    /\ driver' = "loop"
    /\ UNCHANGED <<tasks, components, state, round_id, reveals, config, last>>

\* the reveal timeout arm: "Transition to idle on timeout"
RevealTimeoutSetIdle ==
    /\ driver = "wait_for_reveals"
    /\ state' = Idle
    /\ driver' = "clear_reveals"
    /\ last' = [op |-> "run_with_timeout", result |-> "", reason |-> "reveal timeout",
                received |-> Cardinality(DOMAIN reveals), sent |-> <<>>]
    /\ UNCHANGED <<tasks, components, round_id, commitments, reveals, config>>

\* the reveal timeout arm: "Clear any partial reveals"
RevealTimeoutClear ==
    /\ driver = "clear_reveals"
    /\ reveals' = EmptyMap
    /\ driver' = "loop"
    /\ UNCHANGED <<tasks, components, state, round_id, commitments, config, last>>

NextThread ==
    \/ \E rid \in Rounds :
          Call(Operator, "start_new_round", StartCommitmentMsg(rid, ThreadCommittee))
    \/ \E t \in Handlers, c \in ThreadCommitCalls : Call(t, "process_commitment", c)
    \/ \E t \in Handlers, m \in ThreadRevealMsgs : Call(t, "process_reveal", m)
    \/ \E t \in Tasks : StartSetState(t)
    \/ \E t \in Tasks : StartSetRoundId(t)
    \/ \E t \in Tasks : StartClearCommitments(t)
    \/ \E t \in Tasks : StartClearReveals(t)
    \/ \E t \in Tasks : CommitmentReadState(t)
    \/ \E t \in Tasks : CommitmentCheckDuplicate(t)
    \/ \E t \in Tasks : CommitmentStore(t)
    \/ \E t \in Tasks : CommitmentHasEnough(t)
    \/ \E t \in Tasks : CommitmentTransition(t)
    \/ \E t \in Tasks : RevealReadState(t)
    \/ \E t \in Tasks : RevealCheckDuplicate(t)
    \/ \E t \in Tasks : RevealCheckCommitment(t)
    \/ \E t \in Tasks : RevealVerify(t)
    \/ \E t \in Tasks : RevealStore(t)
    \/ \E t \in Tasks : RevealHasEnough(t)
    \/ \E t \in Tasks : RevealTransition(t)
    \/ DriverIdle
    \/ DriverCollectingCommitments
    \/ WaitForCommitments
    \/ CommitmentTimeoutSetIdle
    \/ CommitmentTimeoutClear
    \/ DriverCollectingReveals
    \/ WaitForReveals
    \/ RevealTimeoutSetIdle
    \/ RevealTimeoutClear
    \/ DriverAggregating
    \/ DriverPublishing

\* the aggregator after construction, with a threshold of at least 1
InitThread == Init /\ config.threshold >= 1

ThreadSpec == InitThread /\ [][NextThread]_vars

(***************************************************************************)
(* The TCP listener (network.rs).  A request body is a JSON object, kept   *)
(* as the record of its fields; serde_json::from_str::<CommitmentMsg>      *)
(* succeeds on an object that has the fields of a CommitmentMsg.  In       *)
(* NetworkSpec the aggregator is reached through handle_connection only,   *)
(* next to the operator's start_new_round and the driver; the arms of the  *)
(* driver for CollectingReveals, Aggregating and Publishing are not part   *)
(* of it, no request leads there.                                          *)
(***************************************************************************)
StartRevealMsg(rid) == [round_id |-> rid]

\* the bodies offered to the listener: commitment messages, reveal messages
\* and objects that are neither
Bodies ==
    {c.msg : c \in ThreadCommitCalls} \cup ThreadRevealMsgs
        \cup {StartRevealMsg(r) : r \in Rounds}

\* serde_json::from_str::<CommitmentMsg>(&message_str)
from_str_CommitmentMsg(body) ==
    IF /\ {"round_id", "payload", "node_id"} \subseteq DOMAIN body
       /\ {"round_id", "commitment", "signature"} \subseteq DOMAIN body.payload
    THEN Some(CommitmentMsg(body.round_id,
                            CommitmentPayload(body.payload.round_id,
                                              body.payload.commitment,
                                              body.payload.signature),
                            body.node_id))
    ELSE None

\* serde_json::from_str::<RevealMsg>, which handle_connection never calls
from_str_RevealMsg(body) ==
    IF /\ {"round_id", "payload", "node_id"} \subseteq DOMAIN body
       /\ {"round_id", "secret"} \subseteq DOMAIN body.payload
    THEN Some(RevealMsg(body.round_id, body.payload.round_id, body.payload.secret,
                        body.node_id))
    ELSE None

\* the token written to the stream for the result of process_commitment
response_bytes(result) ==
    CASE result = "Ok(true)" -> "ACK"
      [] result = "Ok(false)" -> "NACK"
      [] result = "Err" -> "ERROR"

\* the outcomes of stream.read under the 30 s timeout: a body, end of stream,
\* a read error, the timeout
Reads ==
    {[outcome |-> "Ok", body |-> b] : b \in Bodies}
        \cup {[outcome |-> o, body |-> <<>>] : o \in {"closed", "error", "timeout"}}

\* handle_connection; a commitment is processed with the empty public key &[]
HandleConnection(read) ==
    LET op == "handle_connection"
        parsed == from_str_CommitmentMsg(read.body)
    IN
    IF read.outcome = "error" THEN Return(op, "Err", "Read error")
    ELSE IF read.outcome = "timeout" THEN Return(op, "Err", "Read timeout")
    ELSE IF read.outcome = "closed" THEN Return(op, "Ok", "closed")
    ELSE IF parsed # None
         THEN ProcessCommitment(parsed[1], MalformedPublicKey)
    ELSE Return(op, "UNKNOWN_MESSAGE_TYPE", "")

\* the token the sender of the last request received, if any
Response ==
    IF last.op = "process_commitment" THEN response_bytes(last.result)
    ELSE IF last.op = "handle_connection" /\ last.result = "UNKNOWN_MESSAGE_TYPE"
         THEN last.result
    ELSE ""

NextNetwork ==
    \/ \E rid \in Rounds, committee \in Committees : StartNewRound(rid, committee)
    \/ \E read \in Reads : HandleConnection(read)
    \/ DriverIdle
    \/ DriverCollectingCommitments
    \/ WaitForCommitments
    \/ CommitmentTimeout

NetworkSpec == Init /\ [][NextNetwork]_vars

(***************************************************************************)
(* The mutexes of the aggregator (aggregator.rs): which guards a task      *)
(* holds at each position of start_new_round, process_commitment,          *)
(* process_reveal and run_with_timeout.  The tests on the message and on   *)
(* the maps are left open: every branch of the code can be taken.          *)
(***************************************************************************)
\* the task that main.rs spawns for run_with_timeout
DriverTask == NumTasks + 1

LockTasks == Tasks \cup {DriverTask}

\* one position of a method: whether the task is at an .await there, what it
\* does with which mutex, and the positions that can follow (0: the return)
\*   "scope": lock the mutex, use it, drop the guard at the end of the block
\*   "lock":  lock the mutex and keep the guard
\*   "end":   lock the mutex, use it, and drop every guard: the block ends
\*   "none":  no mutex: a sleep
Instr(await, kind, mutex, next) ==
    [await |-> await, kind |-> kind, mutex |-> mutex, next |-> next]

start_new_round_locks ==
    << Instr(FALSE, "scope", "state", {2}),        \* 62-69
       Instr(FALSE, "scope", "round_id", {3}),     \* 72-75
       Instr(FALSE, "lock", "commitments", {4}),   \* 79-80
       Instr(FALSE, "end", "reveals", {0}) >>      \* 82-84, return 88-91

\* "Store the commitment" locks the state before the commitments
process_commitment_locks_state_first ==
    << Instr(FALSE, "scope", "state", {0, 2}),
       Instr(FALSE, "scope", "commitments", {0, 3}),
       Instr(FALSE, "lock", "state", {4}),
       Instr(FALSE, "end", "commitments", {5}),
       Instr(TRUE, "scope", "state", {0, 6}),
       Instr(TRUE, "scope", "state", {0}) >>

process_commitment_locks ==
    << Instr(FALSE, "scope", "state", {0, 2}),        \* 96-99, returns 102-126
       Instr(FALSE, "scope", "commitments", {0, 3}),  \* 129-135
       Instr(FALSE, "lock", "commitments", {4}),      \* 139
       Instr(FALSE, "end", "state", {5}),             \* 140-154
       Instr(TRUE, "scope", "state", {0, 6}),         \* 159: 167-175
       Instr(TRUE, "scope", "state", {0}) >>          \* 160: 178-195

\* the guard of "Store the reveal" is kept to the end of the function
process_reveal_locks_without_block ==
    << Instr(FALSE, "scope", "state", {0, 2}),
       Instr(FALSE, "scope", "reveals", {0, 3}),
       Instr(FALSE, "scope", "commitments", {0, 4}),
       Instr(FALSE, "scope", "commitments", {0, 5}),
       Instr(FALSE, "lock", "reveals", {6}),
       Instr(TRUE, "lock", "reveals", {7}),
       Instr(FALSE, "end", "state", {0, 8}),
       Instr(TRUE, "scope", "state", {0}) >>

process_reveal_locks ==
    << Instr(FALSE, "scope", "state", {0, 2}),        \* 199-202, returns 205-218
       Instr(FALSE, "scope", "reveals", {0, 3}),      \* 221-227
       Instr(FALSE, "scope", "commitments", {0, 4}),  \* 230-236
       Instr(FALSE, "scope", "commitments", {0, 5}),  \* 239: 294-309
       Instr(FALSE, "scope", "reveals", {6}),         \* 250-253
       Instr(TRUE, "lock", "reveals", {7}),           \* 258: 267
       Instr(FALSE, "end", "state", {0, 8}),          \* 268-276
       Instr(TRUE, "scope", "state", {0}) >>          \* 259: 279-291

run_with_timeout_locks ==
    << Instr(FALSE, "scope", "state", {2, 3, 9, 16}), \* 399-401
       Instr(TRUE, "none", "", {17}),                 \* 404
       \* wait_for_commitments under timeout, 408
       Instr(TRUE, "scope", "state", {4, 17}),        \* 484: 167-175
       Instr(FALSE, "scope", "state", {5, 17}),       \* 489-492
       Instr(TRUE, "none", "", {3, 6}),               \* 494, or the timeout
       Instr(FALSE, "scope", "commitments", {7}),     \* 416: 369-372
       Instr(FALSE, "scope", "state", {8}),           \* 419-422
       Instr(FALSE, "scope", "commitments", {17}),    \* 425-428
       \* wait_for_reveals under timeout, 434
       Instr(TRUE, "lock", "reveals", {10}),          \* 503: 267
       Instr(FALSE, "end", "state", {11, 17}),        \* 268-276
       Instr(FALSE, "scope", "state", {12, 17}),      \* 508-511
       Instr(TRUE, "none", "", {9, 13}),              \* 513, or the timeout
       Instr(FALSE, "scope", "reveals", {14}),        \* 441: 375-378
       Instr(FALSE, "scope", "state", {15}),          \* 444-447
       Instr(FALSE, "scope", "reveals", {17}),        \* 450-453
       Instr(FALSE, "scope", "state", {17}),          \* 461-464, 470-473
       Instr(TRUE, "none", "", {1}) >>                \* 477, loop

LockProgram(op) ==
    CASE op = "start_new_round" -> start_new_round_locks
      [] op = "process_commitment" -> process_commitment_locks
      [] op = "process_reveal" -> process_reveal_locks
      [] op = "run_with_timeout" -> run_with_timeout_locks

\* the frame of a task: the method, the position in it, the guards alive
LockFrame(op, pc, guards) == [op |-> op, pc |-> pc, guards |-> guards]

\* the position of a task that is inside a call (pc > 0)
Current(t) == LockProgram(tasks[t].op)[tasks[t].pc]

\* the tasks that hold a guard of the mutex; lock() returns only when
\* nobody holds it, the caller included
Holder(m) ==
    {t \in LockTasks : \E i \in 1..Len(tasks[t].guards) : tasks[t].guards[i] = m}

\* the task goes on at one of the positions that follow; a return drops
\* whatever guard is alive
Advance(t, guards) ==
    \E n \in Current(t).next :
        tasks' = [tasks EXCEPT ![t] =
                     IF n = 0 THEN LockFrame("", 0, <<>>)
                     ELSE LockFrame(tasks[t].op, n, guards)]

\* the operator starts a round, or a connection task handles a message
LockCall(t, op) ==
    /\ tasks[t].pc = 0
    /\ tasks' = [tasks EXCEPT ![t] = LockFrame(op, 1, <<>>)]
    /\ UNCHANGED <<components, state, round_id, commitments, reveals, config, driver, last>>

\* a block that locks one mutex and drops the guard where it closes
LockScope(t) ==
    /\ tasks[t].pc > 0
    /\ Current(t).kind = "scope"
    /\ Holder(Current(t).mutex) = {}
    /\ Advance(t, tasks[t].guards)
    /\ UNCHANGED <<components, state, round_id, commitments, reveals, config, driver, last>>

\* the first lock() of a block with two guards
LockFirst(t) ==
    /\ tasks[t].pc > 0
    /\ Current(t).kind = "lock"
    /\ Holder(Current(t).mutex) = {}
    /\ Advance(t, Append(tasks[t].guards, Current(t).mutex))
    /\ UNCHANGED <<components, state, round_id, commitments, reveals, config, driver, last>>

\* the last lock() of a block, the body and the drop of its guards
LockEnd(t) ==
    /\ tasks[t].pc > 0
    /\ Current(t).kind = "end"
    /\ Holder(Current(t).mutex) = {}
    /\ Advance(t, <<>>)
    /\ UNCHANGED <<components, state, round_id, commitments, reveals, config, driver, last>>

\* tokio::time::sleep(..).await, which the timeout around it may cut short
LockSleep(t) ==
    /\ tasks[t].pc > 0
    /\ Current(t).kind = "none"
    /\ Advance(t, tasks[t].guards)
    /\ UNCHANGED <<components, state, round_id, commitments, reveals, config, driver, last>>

NextLock ==
    \/ LockCall(Operator, "start_new_round")
    \/ \E t \in Handlers : \E op \in {"process_commitment", "process_reveal"} :
          LockCall(t, op)
    \/ \E t \in LockTasks : LockScope(t)
    \/ \E t \in LockTasks : LockFirst(t)
    \/ \E t \in LockTasks : LockEnd(t)
    \/ \E t \in LockTasks : LockSleep(t)

InitLock ==
    /\ config = AggregatorConfig(NumNodes, 1)
    /\ state = Idle
    /\ round_id = 0
    /\ commitments = EmptyMap
    /\ reveals = EmptyMap
    /\ driver = "loop"
    /\ last = [op |-> "new", result |-> "Ok", reason |-> "", received |-> 0, sent |-> <<>>]
    /\ beacon = BeaconState(Some(AdminPublicKey))
    /\ worker = WorkerNew(NodeNames[1], SecretKey(NodeNames[1]))
    /\ aggregation = AggregationInput(EmptyMap)
    /\ enclave = EnclaveLoaded
    /\ tasks = [t \in LockTasks |->
                   IF t = DriverTask THEN LockFrame("run_with_timeout", 1, <<>>)
                   ELSE LockFrame("", 0, <<>>)]

LockSpec == InitLock /\ [][NextLock]_vars

(***************************************************************************)
(* The SGX enclave (tee/sgx/enclave.rs, tee/sgx/mod.rs).  TEEEnclave is     *)
(* Send + Sync and aggregate takes &self: threads enter ecall_aggregate    *)
(* side by side.  NONCE_COUNTER is a static mut that generate_nonce        *)
(* increments and reads without synchronisation: the load, the store and   *)
(* the read are separate steps, and the read yields either the value in    *)
(* memory or the value the thread has just computed.                       *)
(***************************************************************************)
\* Nonce is [u8; 16]: nonce[0..8] holds counter.to_le_bytes(), the rest is 0
NonceOf(counter) == to_le_bytes(counter) \o [i \in 1..8 |-> 0]

\* SgxTeeEnclave::aggregate enters ecall_aggregate: an empty seed is an
\* invalid parameter, otherwise the seed is hashed
EcallAggregate(t, seed) ==
    LET e == enclave.ecalls[t] IN
    /\ e.pc = "idle"
    /\ e.calls < MaxEcalls
    /\ IF Len(seed) = 0
       THEN enclave' = [enclave EXCEPT
                !.ecalls[t].calls = e.calls + 1,
                !.returned = Append(@, [task |-> t, seed |-> seed,
                                        result |-> "Err", random_number |-> <<>>,
                                        nonce |-> <<>>])]
       ELSE enclave' = [enclave EXCEPT
                !.ecalls[t] = Ecall("load", seed, Sha256(<<seed>>), 0, e.calls + 1)]
    /\ UNCHANGED <<state, round_id, commitments, reveals, config, driver, last,
                   beacon, worker, aggregation, tasks>>

\* generate_nonce, NONCE_COUNTER += 1: the counter is loaded
GenerateNonceLoad(t) ==
    /\ enclave.ecalls[t].pc = "load"
    /\ enclave' = [enclave EXCEPT !.ecalls[t].pc = "store",
                                  !.ecalls[t].counter = enclave.NONCE_COUNTER]
    /\ UNCHANGED <<state, round_id, commitments, reveals, config, driver, last,
                   beacon, worker, aggregation, tasks>>

\* generate_nonce, NONCE_COUNTER += 1: the sum is stored; the calls made
\* stay far below 2^64
GenerateNonceStore(t) ==
    /\ enclave.ecalls[t].pc = "store"
    /\ enclave' = [enclave EXCEPT !.ecalls[t].pc = "read",
                                  !.ecalls[t].counter = @ + 1,
                                  !.NONCE_COUNTER = enclave.ecalls[t].counter + 1]
    /\ UNCHANGED <<state, round_id, commitments, reveals, config, driver, last,
                   beacon, worker, aggregation, tasks>>

\* generate_nonce: `counter` takes the value of NONCE_COUNTER; the nonce is
\* built, ecall_aggregate copies the results out and aggregate_in_enclave
\* returns them
GenerateNonceRead(t) ==
    LET e == enclave.ecalls[t] IN
    /\ e.pc = "read"
    /\ \E counter \in {enclave.NONCE_COUNTER, e.counter} :
          enclave' = [enclave EXCEPT
              !.ecalls[t] = Ecall("idle", <<>>, <<>>, 0, e.calls),
              !.returned = Append(@, [task |-> t, seed |-> e.seed, result |-> "Ok",
                                      random_number |-> e.random_number,
                                      nonce |-> NonceOf(counter)])]
    /\ UNCHANGED <<state, round_id, commitments, reveals, config, driver, last,
                   beacon, worker, aggregation, tasks>>

NextTee ==
    \/ \E t \in Handlers, seed \in {<<>>, <<1>>, <<2>>} : EcallAggregate(t, seed)
    \/ \E t \in Handlers : GenerateNonceLoad(t)
    \/ \E t \in Handlers : GenerateNonceStore(t)
    \/ \E t \in Handlers : GenerateNonceRead(t)

InitTee == Init /\ config.threshold = 1

TeeSpec == InitTee /\ [][NextTee]_vars

(***************************************************************************)
(* Properties                                                              *)
(***************************************************************************)
Rank(st) ==
    CASE st.tag = "Idle" -> 0
      [] st.tag = "CollectingCommitments" -> 1
      [] st.tag = "CollectingReveals" -> 2
      [] st.tag = "Aggregating" -> 3
      [] st.tag = "Publishing" -> 4

\* the spec's verify(pk, round_id, commitment, sig): structural checks and
\* ECDSA over SHA-256(round_id_le || commitment)
Verifies(pk, rid, commitment, sig) ==
    /\ pk # MalformedPublicKey
    /\ sig.len = SignatureLen
    /\ sig.recovery_id \in 0..3
    /\ PublicKey(sig.signer) = pk
    /\ sig.digest = Sha256(<<to_le_bytes(rid), commitment>>)

Accepted(op) == last.op = op /\ last.result = "Ok(true)"

\* the documented configuration contract: 1 <= threshold
ValidConfig == config.threshold >= 1

\* C1: within one round the state never steps from a later phase of round r
\* back to an earlier phase of the same round r.
C1_NoRewindWithinRound ==
    [][(ValidConfig /\ state.tag # "Idle" /\ state'.tag # "Idle"
        /\ state'.round_id = state.round_id)
        => Rank(state') >= Rank(state)]_vars

\* C2: start_new_round called while a round is in CollectingCommitments,
\* CollectingReveals or Aggregating leaves the state, the round id and both
\* maps unchanged.
C2_StartRefusedWhileActive ==
    [][(ValidConfig /\ last'.op = "start_new_round"
        /\ state.tag \in {"CollectingCommitments", "CollectingReveals", "Aggregating"})
        => UNCHANGED <<state, round_id, commitments, reveals>>]_vars

\* C3: every stored commitment carries a signature that verifies under the
\* public key stored with it over (payload.round_id, payload.commitment).
C3_StoredCommitmentsVerify ==
    /\ \A n \in DOMAIN commitments :
          Verifies(commitments[n][2], commitments[n][1].round_id,
                   commitments[n][1].commitment, commitments[n][1].signature)
    /\ state.tag = "CollectingCommitments" =>
          \A n \in DOMAIN state.commitments :
              Verifies(state.commitments[n][2], state.commitments[n][1].round_id,
                       state.commitments[n][1].commitment,
                       state.commitments[n][1].signature)

C3_Witness ==
    /\ Accepted("process_commitment")
    /\ Cardinality(DOMAIN commitments) = 2

\* C4: every reveal that process_reveal accepts satisfies
\* commit(payload.secret, payload.round_id) = the commitment stored for its node.
C4_AcceptedRevealReproducesCommitment ==
    [][\A m \in RevealMsgs :
          (ValidConfig /\ ProcessReveal(m) /\ last'.result = "Ok(true)")
          => /\ m.node_id \in DOMAIN commitments
             /\ commit(m.payload.secret, m.payload.round_id)
                    = commitments[m.node_id][1].commitment]_vars

\* C5: after process_commitment accepts a commitment, the state is
\* CollectingReveals{r, {}, threshold} with REVEAL_PHASE_r sent if the stored
\* commitments of round r have reached threshold, and is still
\* CollectingCommitments{r} otherwise.
C5_QuorumOfCommitmentsStartsReveal ==
    Accepted("process_commitment") =>
        IF Cardinality(DOMAIN commitments) >= config.threshold
        THEN /\ state = CollectingReveals(round_id, EmptyMap, config.threshold)
             /\ last.sent = <<RevealPhase(round_id)>>
        ELSE /\ state.tag = "CollectingCommitments"
             /\ state.round_id = round_id

C5_Witness ==
    /\ Accepted("process_commitment")
    /\ config.threshold = 2
    /\ Cardinality(DOMAIN commitments) = 2
    /\ state.tag = "CollectingReveals"

\* C6: after process_reveal accepts a reveal, the state is Aggregating{r} if
\* the stored reveals of round r have reached threshold, and is still
\* CollectingReveals{r} otherwise.
C6_QuorumOfRevealsStartsAggregation ==
    Accepted("process_reveal") =>
        IF Cardinality(DOMAIN reveals) >= config.threshold
        THEN state = Aggregating(round_id)
        ELSE /\ state.tag = "CollectingReveals"
             /\ state.round_id = round_id

C6_Witness ==
    /\ Accepted("process_reveal")
    /\ config.threshold = 2
    /\ Cardinality(DOMAIN reveals) = 2
    /\ state.tag = "Aggregating"

\* the call that stored the commitment of node n in the current round
ReplayOfCommitment(n) ==
    CommitCall(CommitmentMsg(round_id, commitments[n][1], n), commitments[n][2])

\* a reveal message that stored the reveal of node n in the current round
ReplayOfReveal(n, prid) == RevealMsg(round_id, prid, reveals[n], n)

\* C7: replaying an accepted commitment or an accepted reveal of the current
\* round is rejected and changes neither the state nor the maps.
C7_ReplayRejected ==
    [][/\ \A n \in DOMAIN commitments :
             ProcessCommitment(ReplayOfCommitment(n).msg, ReplayOfCommitment(n).pk)
             => /\ last'.result = "Ok(false)"
                /\ UNCHANGED <<state, round_id, commitments, reveals>>
       /\ \A n \in DOMAIN reveals, prid \in Rounds :
             ProcessReveal(ReplayOfReveal(n, prid))
             => /\ last'.result = "Ok(false)"
                /\ UNCHANGED <<state, round_id, commitments, reveals>>]_vars

C7_Witness ==
    /\ last.op = "process_commitment"
    /\ last.reason = "duplicate"
    /\ state.tag = "CollectingCommitments"
    /\ Cardinality(DOMAIN commitments) = 1

\* C8: a call of process_commitment or process_reveal that does not accept its
\* message leaves the state, the round id and both maps as they were.
C8_RejectionChangesNothing ==
    [][(last'.op \in {"process_commitment", "process_reveal"}
        /\ last'.result # "Ok(true)")
        => UNCHANGED <<state, round_id, commitments, reveals>>]_vars

C8_Witness ==
    /\ last.op = "process_reveal"
    /\ last.reason = "mismatch"
    /\ state.tag = "CollectingReveals"
    /\ Cardinality(DOMAIN reveals) = 1

\* C9: when the commitment timeout fires with fewer than threshold commitments
\* received, the state is Idle and the commitments map is empty afterwards.
C9_CommitmentTimeoutAbandonsRound ==
    (last.reason = "commitment timeout" /\ last.received < config.threshold)
    => /\ state = Idle
       /\ commitments = EmptyMap

C9_Witness ==
    /\ last.reason = "commitment timeout"
    /\ last.received = 1
    /\ config.threshold = 2
    /\ state = Idle

\* C10: whenever the state is Idle, the commitments map and the reveals map
\* are both empty.
C10_IdleMapsEmpty ==
    (ValidConfig /\ state = Idle) => (commitments = EmptyMap /\ reveals = EmptyMap)

\* C11: once at least threshold nodes have had their commitments and their
\* matching reveals accepted for round r (the state is Aggregating{r}) and no
\* phase timeout fires, the fairly scheduled driver eventually brings the
\* state to Publishing{r}.
C11_QuorumRoundReachesPublishing ==
    \A r \in Rounds : (ValidConfig /\ state = Aggregating(r)) ~> (state = Publishing(r))

\* C12: the driver step that takes a round from Publishing{r} back to Idle
\* leaves a RandomnessEvent for round r on the beacon ledger, so that
\* get_randomness(r) returns it once the round has completed.
C12_CompletedRoundIsPublished ==
    [][(ValidConfig /\ state.tag = "Publishing" /\ state' = Idle)
        => state.round_id \in DOMAIN beacon'.events]_vars

\* the entries of map whose node id sorts before k
Before(map, k) == {j \in DOMAIN map : StringLess(j, k)}

\* C13: the seed returned by sort_and_concatenate_secrets has length
\* 32 x |reveals| and holds, for every node id, that node's secret at the
\* position given by the number of node ids that sort bytewise before it
\* (node1, node10, node2), whatever order the map was iterated in.
C13_SeedIsSortedConcatenation ==
    last.op = "sort_and_concatenate_secrets" =>
        LET map == aggregation.reveals
            seed == aggregation.concatenated_secrets
        IN  /\ Len(seed) = SecretLen * Cardinality(DOMAIN map)
            /\ \A k \in DOMAIN map, i \in 1..SecretLen :
                  seed[SecretLen * Cardinality(Before(map, k)) + i] = map[k].secret.fill
            /\ DOMAIN map = {"node1", "node10", "node2"} =>
                  seed = SecretBytes(map["node1"].secret)
                            \o SecretBytes(map["node10"].secret)
                            \o SecretBytes(map["node2"].secret)

C13_Witness ==
    /\ last.op = "sort_and_concatenate_secrets"
    /\ DOMAIN aggregation.reveals = {"node1", "node10", "node2"}
    /\ aggregation.reveals["node1"].secret = Secret(1)
    /\ aggregation.reveals["node10"].secret = Secret(0)
    /\ aggregation.reveals["node2"].secret = Secret(2)
    /\ Len(aggregation.concatenated_secrets) = 96
    /\ aggregation.concatenated_secrets[33] = 0

\* C14: a submission whose round id is already a key of events is rejected
\* and leaves the ledger unchanged, so get_randomness(r) keeps returning the
\* first event accepted for r.
C14_FirstEventOfRoundKept ==
    [][/\ \A r \in DOMAIN beacon.events :
             get_randomness(r, beacon'.events) = Some(beacon.events[r])
       /\ \A event \in RandomnessEvents, caller \in Callers :
             \A signature \in EventSignatures(event) :
                (event.round_id \in DOMAIN beacon.events
                 /\ ProcessRandomnessSubmission(event, signature, caller))
                => (last'.result = "Err" /\ UNCHANGED beacon)]_vars

\* the caller's key is present and equals the admin key that is set
IsAdmin(caller) == caller # None /\ caller = beacon.admin_public_key

\* C15: a submission whose caller is absent, differs from the admin key, or
\* arrives when no admin key is set fails with "Unauthorized caller" and leaves
\* the ledger unchanged; every change of events is made by a call of the admin.
C15_UnauthorizedCallerRejected ==
    [][/\ \A event \in RandomnessEvents, caller \in Callers :
             \A signature \in EventSignatures(event) :
                (~IsAdmin(caller) /\ ProcessRandomnessSubmission(event, signature, caller))
                => /\ last'.result = "Err"
                   /\ last'.reason = "Unauthorized caller"
                   /\ UNCHANGED beacon
       /\ beacon'.events # beacon.events
             => /\ beacon.admin_public_key # None
                /\ \E event \in RandomnessEvents :
                      \E signature \in EventSignatures(event) :
                         ProcessRandomnessSubmission(event, signature,
                                                     beacon.admin_public_key)]_vars

C15_Witness ==
    /\ last.op = "process_randomness_submission"
    /\ last.reason = "Unauthorized caller"
    /\ Cardinality(DOMAIN beacon.events) = 2

\* full verification of an event signature under the admin key: 65 bytes,
\* made by the admin key over SHA-256 of the serialized event
EventSignatureVerifies(event, signature, admin_public_key) ==
    /\ admin_public_key # None
    /\ signature.len = SignatureLen
    /\ signature.recovery_id \in 0..3
    /\ PublicKey(signature.signer) = admin_public_key[1]
    /\ signature.digest = Sha256(<<to_vec(event)>>)

\* C16: a submission of the authorized caller whose signature does not verify
\* over the event bytes under the admin key fails with "Invalid signature" and
\* leaves the ledger unchanged.
C16_InvalidSignatureRejected ==
    [][\A event \in RandomnessEvents, caller \in Callers :
          \A signature \in EventSignatures(event) :
             (/\ IsAdmin(caller)
              /\ ~EventSignatureVerifies(event, signature, beacon.admin_public_key)
              /\ ProcessRandomnessSubmission(event, signature, caller))
             => /\ last'.result = "Err"
                /\ last'.reason = "Invalid signature"
                /\ UNCHANGED beacon]_vars

\* C17: current_round_id is the largest key of events, or 0 when events is
\* empty.
C17_CurrentRoundIsMaxKey ==
    /\ \A r \in DOMAIN beacon.events : r <= beacon.current_round_id
    /\ beacon.current_round_id \in DOMAIN beacon.events \cup {0}

C17_Witness ==
    /\ last.op = "process_randomness_submission"
    /\ last.result = "Ok"
    /\ DOMAIN beacon.events = {0, 1}
    /\ beacon.current_round_id = 1

\* the commitment payload that the last handle_start_commitment returned
Returned == last.sent[1]

StartedCommitment == last.op = "handle_start_commitment" /\ last.result = "Ok"

\* C18: the commitment in the payload the worker returns for round r equals
\* SHA-256(secret || r as 8 little-endian bytes), the value the aggregator
\* recomputes from the reveal of that secret.
C18_WorkerCommitmentBindsRound ==
    StartedCommitment =>
        Returned.commitment = commit(worker.current_secret[1], Returned.round_id)

\* C19: the payload the worker returns for round r under its secret key passes
\* the aggregator's verify_signature under the matching public key.
C19_WorkerPayloadVerifies ==
    StartedCommitment =>
        verify_signature(CommitmentMsg(Returned.round_id, Returned, worker.node_id),
                         Returned.signature, PublicKey(worker.secret_key)) = "Ok(true)"

\* C20: handle_start_commitment fails when the worker's node id is not in
\* msg.committee and then leaves the worker's round, secret and commitment as
\* they were.
C20_NotInCommitteeLeavesWorker ==
    [][\A msg \in StartCommitmentMsgs, generated \in GeneratedSecrets :
          (/\ \A i \in DOMAIN msg.committee : msg.committee[i] # worker.node_id
           /\ HandleStartCommitment(msg, generated))
          => /\ last'.result = "Err"
             /\ UNCHANGED worker]_vars

C20_Witness ==
    /\ last.op = "handle_start_commitment"
    /\ last.reason = "not part of the committee"
    /\ worker.current_round_id = Some(1)
    /\ worker.current_secret # None


\* C21: handle_start_commitment for a round other than the one the worker
\* already holds fails and leaves the held round, secret and commitment as
\* they were.
C21_SecondCommitmentRefused ==
    [][\A msg \in StartCommitmentMsgs, generated \in GeneratedSecrets :
          (/\ worker.current_round_id # None
           /\ worker.current_round_id # Some(msg.round_id)
           /\ HandleStartCommitment(msg, generated))
          => (last'.result = "Err" /\ UNCHANGED worker)]_vars

\* C22: create_reveal_message leaves the worker unchanged; it returns the held
\* round id and the secret stored by the latest successful
\* handle_start_commitment when the worker holds a round, and fails with
\* "not participating" when it holds none (before any commitment and after
\* reset_state).
C22_RevealReturnsStoredSecret ==
    [][/\ \A msg \in StartCommitmentMsgs, generated \in GeneratedSecrets :
            (HandleStartCommitment(msg, generated) /\ last'.result = "Ok")
            => /\ worker'.current_round_id = Some(msg.round_id)
               /\ worker'.current_secret = generated
       /\ ResetState => worker'.current_round_id = None
       /\ CreateRevealMessage =>
            /\ UNCHANGED worker
            /\ IF worker.current_round_id # None
               THEN /\ last'.result = "Ok"
                    /\ last'.sent = <<RevealMsg(worker.current_round_id[1],
                                                worker.current_round_id[1],
                                                worker.current_secret[1],
                                                worker.node_id)>>
               ELSE /\ last'.result = "Err"
                    /\ last'.reason = "Worker is not participating in a round"
                    /\ last'.sent = <<>>]_vars

C22_Witness ==
    /\ last.op = "create_reveal_message"
    /\ last.result = "Ok"
    /\ worker.current_round_id = Some(1)
    /\ last.sent[1].payload.secret = worker.current_secret[1]


\* C23: every aggregator that was constructed has a threshold of at least 1
\* and at most the committee size.
C23_ThresholdWithinCommittee ==
    last.op = "new" =>
        (last.result = "Ok" =>
            (config.threshold >= 1 /\ config.threshold <= config.committee_size))


\* C24: once a reveal of a node was rejected in round r because it does not
\* reproduce the node's commitment, no later reveal of that node is accepted
\* in round r.  (The rejected node is identified as the only committed node
\* that has not revealed yet.)
C24_NoSecondRevealAfterMismatch ==
    [][\A m \in RevealMsgs :
          (/\ ValidConfig
           /\ last.op = "process_reveal" /\ last.reason = "mismatch"
           /\ DOMAIN commitments \ DOMAIN reveals = {m.node_id}
           /\ ProcessReveal(m))
          => last'.result # "Ok(true)"]_vars


\* C25: start_new_round(r, committee) called in Idle leaves the state
\* CollectingCommitments{r, {}, config.threshold}, the round id r and both
\* maps empty, and returns a StartCommitmentMsg carrying r and the committee
\* as given.
C25_StartNewRoundFromIdle ==
    [][\A rid \in Rounds, committee \in Committees :
          (state = Idle /\ StartNewRound(rid, committee))
          => /\ state' = CollectingCommitments(rid, EmptyMap, config.threshold)
             /\ round_id' = rid
             /\ commitments' = EmptyMap
             /\ reveals' = EmptyMap
             /\ last'.result = "Ok"
             /\ last'.sent = <<StartCommitmentMsg(rid, committee)>>]_vars

C25_Witness ==
    /\ last.op = "start_new_round"
    /\ last.sent = <<StartCommitmentMsg(1, [i \in 1..2 |-> NodeNames[i]])>>
    /\ state = CollectingCommitments(1, EmptyMap, config.threshold)
    /\ round_id = 1
    /\ commitments = EmptyMap /\ reveals = EmptyMap


\* C27: every commitment stored for the active round carries, in its signed
\* payload, the round id of that round.
C27_StoredCommitmentsOfActiveRound ==
    (ValidConfig /\ state.tag \in {"CollectingCommitments", "CollectingReveals"})
    => /\ \A n \in DOMAIN commitments :
             commitments[n][1].round_id = state.round_id
       /\ state.tag = "CollectingCommitments" =>
             \A n \in DOMAIN state.commitments :
                 state.commitments[n][1].round_id = state.round_id


\* C30: a phase timeout abandons a round only when the quorum was not
\* reached: the commitment timeout branch, executed when the state is already
\* CollectingReveals, changes neither the state nor the commitments, and the
\* reveal timeout branch, executed when the state is already Aggregating,
\* changes neither the state nor the reveals.
C30_TimeoutSparesCompletedPhase ==
    [][ValidConfig =>
          /\ (CommitmentTimeout /\ state.tag = "CollectingReveals")
                => UNCHANGED <<state, commitments>>
          /\ (RevealTimeout /\ state.tag = "Aggregating")
                => UNCHANGED <<state, reveals>>]_vars


\* the round a call in progress works for is still collecting commitments
CollectingFor(t) ==
    state.tag = "CollectingCommitments" /\ state.round_id = tasks[t].round_id

\* C26: a commitment that process_commitment comes to store when the state is
\* no longer CollectingCommitments of the round the call read changes neither
\* the state nor the commitments, and a call that stored nothing does not
\* return accepted.
C26_LateCommitmentRejected ==
    [][\A t \in Handlers :
          /\ (CommitmentStore(t) /\ ~CollectingFor(t))
                => UNCHANGED <<state, commitments>>
          /\ (tasks[t].pc # "done" /\ tasks'[t].pc = "done"
               /\ tasks'[t].reason = "not stored")
                => tasks'[t].result # "Ok(true)"]_vars

\* a call of process_commitment that is past the duplicate test and has not
\* returned yet: every path from there returns Ok(true)
PastDuplicateTest(t) ==
    /\ tasks[t].op = "process_commitment"
    /\ tasks[t].pc \in {"store", "has_enough", "transition"}

\* C28: of two calls of process_commitment for the same node and round that
\* are in progress at the same time, at most one returns accepted.
C28_OneConcurrentCommitmentAccepted ==
    \A t1 \in Handlers, t2 \in Handlers :
        (/\ t1 # t2
         /\ PastDuplicateTest(t1) /\ PastDuplicateTest(t2)
         /\ tasks[t1].arg.msg.node_id = tasks[t2].arg.msg.node_id)
        => tasks[t1].round_id # tasks[t2].round_id

\* C29: the commitments stored for a round that collects commitments never
\* exceed the threshold, and the reveals stored for a round that collects
\* reveals or aggregates never exceed the threshold.
C29_StoredNeverExceedThreshold ==
    /\ state.tag = "CollectingCommitments" =>
          Cardinality(DOMAIN state.commitments) <= state.threshold
    /\ state.tag \in {"CollectingReveals", "Aggregating"} =>
          Cardinality(DOMAIN reveals) <= config.threshold


\* C31: whenever the state is CollectingReveals{r} or Aggregating{r}, the
\* commitments map holds at least threshold commitments of round r, and
\* whenever it is Aggregating{r} the reveals map holds at least threshold
\* reveals.
C31_QuorumBehindLaterPhases ==
    /\ state.tag \in {"CollectingReveals", "Aggregating"} =>
          Cardinality({n \in DOMAIN commitments :
                          commitments[n][1].round_id = state.round_id})
              >= config.threshold
    /\ state.tag = "Aggregating" =>
          Cardinality(DOMAIN reveals) >= config.threshold


\* C32: process_commitment returns accepted only for a commitment it stored
\* in the round named in the message: its store step, after which every path
\* returns Ok(true), leaves the state CollectingCommitments of that round
\* with the commitment in both maps.
C32_AcceptedCommitmentWasStored ==
    [][\A t \in Handlers :
          CommitmentStore(t) =>
             LET c == tasks[t].arg
                 entry == <<c.msg.payload, c.pk>>
             IN  /\ state'.tag = "CollectingCommitments"
                 /\ state'.round_id = c.msg.round_id
                 /\ contains_key(state'.commitments, c.msg.node_id)
                 /\ state'.commitments[c.msg.node_id] = entry
                 /\ contains_key(commitments', c.msg.node_id)
                 /\ commitments'[c.msg.node_id] = entry]_vars


\* a call whose cryptographic input is malformed: the public key does not
\* parse, the signature is not 65 bytes long or its recovery id is invalid
MalformedInput(c) ==
    \/ c.pk = MalformedPublicKey
    \/ c.msg.payload.signature.len # SignatureLen
    \/ c.msg.payload.signature.recovery_id \notin 0..3

\* C33: process_commitment answers malformed cryptographic input with the
\* rejection Ok(false), never with an error, and leaves the aggregator
\* unchanged.
C33_MalformedInputIsRejection ==
    [][\A c \in CommitCalls :
          (ValidConfig /\ MalformedInput(c) /\ ProcessCommitment(c.msg, c.pk))
          => /\ last'.result = "Ok(false)"
             /\ UNCHANGED <<state, round_id, commitments, reveals>>]_vars


\* a call of process_reveal that was rejected; last.reason names the return
\* statement that was taken, last.result is the value the caller receives
RejectedReveal(e) == e.op = "process_reveal" /\ e.reason # ""

\* C34: process_reveal returns a different value for each cause of rejection:
\* two successive rejections that have different causes give the caller
\* different values.
C34_RejectionCausesDistinguished ==
    [][(/\ ValidConfig
        /\ RejectedReveal(last) /\ RejectedReveal(last')
        /\ last.reason # last'.reason)
        => last.result # last'.result]_vars


\* C35: handle_connection passes every well-formed CommitmentMsg to
\* process_commitment and every well-formed RevealMsg to process_reveal and
\* answers ACK on acceptance and NACK on rejection; it answers
\* UNKNOWN_MESSAGE_TYPE only to a body that is neither.
C35_BothMessageKindsRecognized ==
    [][\A body \in Bodies :
          (ValidConfig /\ HandleConnection([outcome |-> "Ok", body |-> body]))
          => /\ from_str_CommitmentMsg(body) # None
                  => /\ last'.op = "process_commitment"
                     /\ Response' \in {"ACK", "NACK"}
             /\ from_str_RevealMsg(body) # None
                  => /\ last'.op = "process_reveal"
                     /\ Response' \in {"ACK", "NACK"}
             /\ Response' = "UNKNOWN_MESSAGE_TYPE"
                  => /\ from_str_CommitmentMsg(body) = None
                     /\ from_str_RevealMsg(body) = None]_vars


\* C36: with a threshold of at least 1 and the driver and its timers running,
\* every round that was started eventually ends: from any state that is not
\* Idle the state eventually is Idle.
C36_EveryRoundReturnsToIdle ==
    \A r \in Rounds :
        (ValidConfig /\ state.tag # "Idle" /\ state.round_id = r) ~> (state = Idle)


\* C39: whenever the state is CollectingCommitments{r}, the commitments map
\* inside the state variant and the side map hold exactly the same entries.
C39_CommitmentCopiesAgree ==
    state.tag = "CollectingCommitments" => state.commitments = commitments


\* the mutex a task is about to lock, if any
Wanted(t) == IF tasks[t].pc > 0 /\ Current(t).kind # "none" THEN {Current(t).mutex} ELSE {}

\* the task cannot step: the mutex it wants is held
Blocked(t) == \E m \in Wanted(t) : Holder(m) # {}

\* C37: no task of the aggregator holds the guard of the state, of the
\* commitments or of the reveals while it is suspended at an await point:
\* a sleep, a wait for the quorum under a timeout, an awaited call.
C37_NoGuardAcrossAwait ==
    \A t \in LockTasks :
        (tasks[t].pc > 0 /\ Current(t).await) => tasks[t].guards = <<>>

\* a handler is at the await that follows a block with two guards while
\* another task holds a guard
C37_Witness ==
    \E t \in Handlers, u \in LockTasks :
        /\ tasks[t].op = "process_commitment" /\ tasks[t].pc = 5
        /\ u # t /\ tasks[u].guards # <<>>

\* the order in which the code takes two mutexes in one block
LockOrder(m) ==
    CASE m = "round_id" -> 0
      [] m = "commitments" -> 1
      [] m = "reveals" -> 2
      [] m = "state" -> 3

\* every task of the set waits for a mutex that a task of the set holds
Deadlocked(S) ==
    \A t \in S : \E m \in Wanted(t) : Holder(m) \cap S # {}

\* C38: no interleaving of start_new_round, process_commitment,
\* process_reveal and the timeout driver deadlocks: no set of tasks wait for
\* each other, a mutex is locked only after the mutexes that precede it in
\* one order (commitments, reveals, state), and a task outside a call
\* holds no guard.
C38_NoDeadlock ==
    /\ \A S \in SUBSET LockTasks : S # {} => ~Deadlocked(S)
    /\ \A t \in LockTasks : \A m \in Wanted(t) :
          \A i \in 1..Len(tasks[t].guards) :
              LockOrder(tasks[t].guards[i]) < LockOrder(m)
    /\ \A t \in LockTasks : tasks[t].pc = 0 => tasks[t].guards = <<>>

\* start_new_round holds the commitments and waits for the reveals, which a
\* task in has_enough_reveals holds, and a third task waits for the
\* commitments
C38_Witness ==
    \E t \in Handlers, u \in Handlers :
        /\ t # u
        /\ tasks[Operator].guards = <<"commitments">>
        /\ tasks[t].guards = <<"reveals">>
        /\ Blocked(Operator)
        /\ "commitments" \in Wanted(u)


====
